---- MODULE Spec2Model ----
(***************************************************************************)
(* Client-side session and paginated-list data flow of the                 *)
(* fullstack-users-auth frontend: the Zustand auth store with its persist  *)
(* middleware, the axios request/response interceptors, the React Query    *)
(* hooks that feed the store, the route guard, the users list controller   *)
(* and the page-number window of the Pagination component.                 *)
(***************************************************************************)
EXTENDS Integers, Sequences, FiniteSets, TLC

VARIABLES
    user,             \* authStore: state.user (NullUser when logged out)
    token,            \* authStore: state.token (NULL when logged out)
    isAuthenticated,  \* authStore: state.isAuthenticated
    authToken,        \* localStorage['authToken'], read by the request interceptor
    authStorage,      \* localStorage['auth-storage'], written by the persist middleware
    location,         \* route rendered by the router
    href,             \* window.location.href assigned and not yet loaded (NoNav: none)
    requests,         \* requests sent by apiClient and not yet answered
    session,          \* history: the most recent event that made or ended the session
    page,             \* UsersList: useState page
    ageFilter,        \* UsersList: useState ageFilter ({} is undefined, {v} is v)
    queryCache,       \* React Query cache of ['users', params], by params
    lastQueryWithDefinedData, \* query observer: the last observed query that had data
    fetches,          \* number of list requests sent since the list mounted
    placeholder,      \* query observer: the placeholder data of its current result
    resolved,         \* history: did the last list response answer the current params?
    pagination,       \* Pagination: the props {page, totalPages} it is rendered with
    pageNumbers,      \* Pagination: the page numbers rendered for them
    queryInput,       \* userApi.getUsers: the params it is called with
    requestUrl,       \* userApi.getUsers: the URL it requests (NoUrl before the call)
    rejected,         \* the call whose promise was rejected last, and the reason
    reset             \* requestPasswordReset: its outcome with and without an account

storeVars == <<user, token, isAuthenticated>>
authVars == <<user, token, isAuthenticated, authToken, authStorage, location, href,
              requests, session>>
listVars == <<page, ageFilter, queryCache, lastQueryWithDefinedData, fetches,
              placeholder, resolved>>
windowVars == <<pagination, pageNumbers>>
apiVars == <<queryInput, requestUrl, rejected, reset>>
vars == <<authVars, listVars, windowVars, apiVars>>

----------------------------------------------------------------------------
(* Values *)

\* JavaScript null for the token and for localStorage items.
NULL == "null"
\* state.user = null
NullUser == [null |-> TRUE]
\* localStorage has no item under 'auth-storage'
NoStorage == [absent |-> TRUE]
\* no window.location.href assignment pending
NoNav == "none"

\* JWTs issued by the backend
Tokens == {"t1", "t2"}
Ids == {"u1", "u2"}
Names == {"ann", "bob"}
\* user records returned by the backend
Users == [id : Ids, name : Names]

\* JavaScript truthiness of a string | null, as used by !!token and `if (token ...)`
Truthy(t) == t # NULL /\ t # ""

Routes == {"/login", "/register", "/dashboard", "/profile", "/users"}
ProtectedRoutes == {"/dashboard", "/profile", "/users"}

----------------------------------------------------------------------------
(* Endpoints.  A URL is the sequence of its path segments. *)

Url(op, id) ==
    CASE op = "login"          -> <<"api", "auth", "login">>
      [] op = "register"       -> <<"api", "auth", "register">>
      [] op = "verifyToken"    -> <<"api", "auth", "verify-token">>
      [] op = "changePassword" -> <<"api", "auth", "change-password">>
      [] op = "getCurrentUser" -> <<"api", "auth", "me">>
      [] op = "getUsers"       -> <<"api", "users">>
      [] op = "updateCurrentUser" -> <<"api", "users", id>>
      [] op = "deleteCurrentUser" -> <<"api", "users", id>>
      [] op = "requestPasswordReset" -> <<"api", "auth", "forgot-password">>

Ops == {"login", "register", "verifyToken", "changePassword", "getCurrentUser",
        "getUsers", "updateCurrentUser", "deleteCurrentUser"}

\* String.prototype.includes on path segments: pat occurs contiguously in url
includes(url, pat) ==
    \E i \in 1..(Len(url) - Len(pat) + 1) : SubSeq(url, i, i + Len(pat) - 1) = pat

\* mutant: every /auth/ endpoint is taken for a login attempt
isAuthEndpoint_anyAuth(url) == includes(url, <<"auth">>)

\* mutant: only the login endpoint is exempt from the teardown
isAuthEndpoint_loginOnly(url) == includes(url, <<"auth", "login">>)

\* apiClient.ts: error.config?.url?.includes('/auth/login') || ...includes('/auth/register')
isAuthEndpoint(url) ==
    includes(url, <<"auth", "login">>) \/ includes(url, <<"auth", "register">>)

\* HTTP status of an error response; NoResponse: network error or timeout
Unauthorized == 401
NotFound == 404
NoResponse == 0
Statuses == {Unauthorized, NotFound, NoResponse}

\* the Authorization header of a request: <<>> when none is attached
NoHeader == <<>>
Bearer(t) == <<"Bearer", t>>

\* most requests that are in flight at once
MaxInflight == 2

\* JavaScript undefined, for an optional field that is not set
undefined == "undefined"
\* getUsers has not been called
NoParams == [none |-> TRUE]
NoUrl == <<>>
\* no promise has been rejected
NoRejection == [none |-> TRUE]
\* requestPasswordReset has not been called
NoOutcome == [none |-> TRUE]

----------------------------------------------------------------------------
(* authStore.ts: the store, its persist middleware and its actions *)

\* persist option partialize: what is written under 'auth-storage'
partialize(state) == [user |-> state.user, token |-> state.token]

\* the state the store is created with
initialState == [user |-> NullUser, token |-> NULL, isAuthenticated |-> FALSE]

\* persist middleware, default merge: the persisted fields over the created state
merge(persisted, current) ==
    IF persisted = NoStorage
    THEN current
    ELSE [current EXCEPT !.user = persisted.user, !.token = persisted.token]

\* mutant: the flag is left as merged, not derived
onRehydrateStorage_notDerived(state) == state

\* mutant: the flag is derived by a null check, so an empty token counts
onRehydrateStorage_nonNull(state) ==
    [state EXCEPT !.isAuthenticated = (state.token # NULL)]

\* persist option onRehydrateStorage: state.isAuthenticated = !!state.token
onRehydrateStorage(state) == [state EXCEPT !.isAuthenticated = Truthy(state.token)]

\* the store after the persist middleware has loaded 'auth-storage'
rehydrate(persisted) == onRehydrateStorage(merge(persisted, initialState))

\* zustand set() under persist: the new state, and its partialized copy to storage
set(state) ==
    /\ user' = state.user
    /\ token' = state.token
    /\ isAuthenticated' = state.isAuthenticated
    /\ authStorage' = partialize(state)

\* mutant: the token is not copied to localStorage['authToken']
setAuth_noSideChannel(u, t) ==
    /\ UNCHANGED authToken
    /\ set([user |-> u, token |-> t, isAuthenticated |-> TRUE])

\* authStore.setAuth(user, token)
setAuth(u, t) ==
    /\ authToken' = t
    /\ set([user |-> u, token |-> t, isAuthenticated |-> TRUE])

\* mutant: localStorage['authToken'] is not removed
logout_keepsSideChannel ==
    /\ UNCHANGED authToken
    /\ set([user |-> NullUser, token |-> NULL, isAuthenticated |-> FALSE])

\* authStore.logout()
logout ==
    /\ authToken' = NULL
    /\ set([user |-> NullUser, token |-> NULL, isAuthenticated |-> FALSE])

\* mutant: the patch replaces the user
spread_replace(u, updatedFields) == updatedFields

\* { ...state.user, ...updatedFields }
spread(u, updatedFields) ==
    [f \in DOMAIN u \cup DOMAIN updatedFields |->
        IF f \in DOMAIN updatedFields THEN updatedFields[f] ELSE u[f]]

\* authStore.updateUser(updatedFields)
updateUser(updatedFields) ==
    /\ set([user |-> IF user # NullUser THEN spread(user, updatedFields) ELSE NullUser,
            token |-> token,
            isAuthenticated |-> isAuthenticated])
    /\ UNCHANGED authToken

----------------------------------------------------------------------------
(* ProtectedRoute.tsx and router/index.tsx *)

\* mutant: every path is rendered as asked
ProtectedRoute_open(path, authenticated) == path

\* the route rendered for path: a protected path redirects to /login when
\* isAuthenticated is false
ProtectedRoute(path, authenticated) ==
    IF path \in ProtectedRoutes /\ ~authenticated THEN "/login" ELSE path

----------------------------------------------------------------------------
(* apiClient.ts: the interceptors *)

\* mutant: the token is read from the Zustand store
requestInterceptor_fromStore(ls) == IF Truthy(token) THEN Bearer(token) ELSE NoHeader

\* mutant: the token is attached without the Bearer scheme
requestInterceptor_noScheme(ls) == IF Truthy(ls) THEN <<ls>> ELSE NoHeader

\* mutant: any stored string counts as a token, the empty one too
requestInterceptor_nonNull(ls) == IF ls # NULL THEN Bearer(ls) ELSE NoHeader

\* request interceptor: the header attached from localStorage['authToken']
requestInterceptor(ls) == IF Truthy(ls) THEN Bearer(ls) ELSE NoHeader

\* apiClient sends a request for op; it stays in flight until answered
Send(op, id) ==
    /\ Cardinality(requests) < MaxInflight
    /\ requests' = requests \cup
         {[op |-> op, url |-> Url(op, id), auth |-> requestInterceptor(authToken)]}

\* response interceptor, error branch: does this error tear the session down?
teardown(r, status) == status = Unauthorized /\ ~isAuthEndpoint(r.url)

\* response interceptor, error branch: the localStorage items removed and the redirect
responseError(r, status) ==
    /\ authToken' = IF teardown(r, status) THEN NULL ELSE authToken
    /\ href' = IF teardown(r, status) THEN "/login" ELSE href

----------------------------------------------------------------------------
(* The handlers of the session flow *)

Event(ev, t) == [ev |-> ev, tok |-> t]

\* LoginForm / RegisterForm submit: useLogin / useRegister mutationFn
SubmitAuth ==
    \E op \in {"login", "register"} :
        /\ location = "/" \o op
        /\ Send(op, "")
        /\ UNCHANGED <<storeVars, authToken, authStorage, location, href, session, listVars, windowVars, apiVars>>

\* useLogin / useRegister onSuccess: setAuth(data.user, data.token); navigate('/dashboard')
AuthSuccess(r, u, t) ==
    /\ r \in requests /\ r.op \in {"login", "register"}
    /\ requests' = requests \ {r}
    /\ setAuth(u, t)
    /\ location' = ProtectedRoute("/dashboard", TRUE)
    /\ session' = Event("login", t)
    /\ UNCHANGED <<href, listVars, windowVars, apiVars>>

\* a request of a protected page: EditProfileForm and ChangePasswordForm on /profile,
\* UsersList on /users, and the hooks useDeleteUser, useVerifyToken, useCurrentUser
SendProtected ==
    \E op \in Ops \ {"login", "register"} :
        /\ location \in ProtectedRoutes
        /\ op \in {"updateCurrentUser", "changePassword"} => location = "/profile"
        /\ op = "getUsers" => location = "/users"
        /\ op \in {"updateCurrentUser", "deleteCurrentUser"} => user # NullUser
        /\ op \in {"verifyToken", "getCurrentUser"} => Truthy(token)
        /\ Send(op, IF user # NullUser THEN user.id ELSE "")
        /\ UNCHANGED <<storeVars, authToken, authStorage, location, href, session, listVars, windowVars, apiVars>>

\* mutant: the store is patched with the payload that was sent
UpdateSuccess_payload(r, updatedUser) ==
    /\ r \in requests /\ r.op = "updateCurrentUser"
    /\ updatedUser.id = r.url[3]
    /\ requests' = requests \ {r}
    /\ updateUser(r.data)
    /\ UNCHANGED <<location, href, session, listVars, windowVars, apiVars>>

\* useUpdateUser onSuccess: updateUserStore(updatedUser)
UpdateSuccess(r, updatedUser) ==
    /\ r \in requests /\ r.op = "updateCurrentUser"
    /\ updatedUser.id = r.url[3]
    /\ requests' = requests \ {r}
    /\ updateUser(updatedUser)
    /\ UNCHANGED <<location, href, session, listVars, windowVars, apiVars>>

\* mutant: the deletion succeeds and the store is left alone
DeleteSuccess_noLogout(r) ==
    /\ r \in requests /\ r.op = "deleteCurrentUser"
    /\ requests' = requests \ {r}
    /\ session' = Event("delete", NULL)
    /\ UNCHANGED <<storeVars, authToken, authStorage, location, href, listVars,
                   windowVars, apiVars>>

\* useDeleteUser onSuccess: logout(); ProtectedRoute then re-renders
DeleteSuccess(r) ==
    /\ r \in requests /\ r.op = "deleteCurrentUser"
    /\ requests' = requests \ {r}
    /\ logout
    /\ location' = ProtectedRoute(location, FALSE)
    /\ session' = Event("delete", NULL)
    /\ UNCHANGED <<href, listVars, windowVars, apiVars>>

\* a success response the session does not depend on
PlainSuccess(r) ==
    /\ r \in requests
    /\ r.op \in {"verifyToken", "changePassword", "getCurrentUser", "getUsers"}
    /\ requests' = requests \ {r}
    /\ UNCHANGED <<storeVars, authToken, authStorage, location, href, session, listVars, windowVars, apiVars>>

\* an error response (or no response) passes the response interceptor's error branch
Failure(r, status) ==
    /\ r \in requests
    /\ requests' = requests \ {r}
    /\ responseError(r, status)
    /\ session' = IF teardown(r, status) THEN Event("teardown", NULL) ELSE session
    /\ UNCHANGED <<storeVars, authStorage, location, listVars, windowVars, apiVars>>

\* useLogout: logout(); navigate('/login')
LogoutClick ==
    /\ location \in ProtectedRoutes
    /\ logout
    /\ location' = "/login"
    /\ session' = Event("logout", NULL)
    /\ UNCHANGED <<href, requests, listVars, windowVars, apiVars>>

\* a link or the history takes the router to path
Navigate(path) ==
    /\ path # location
    /\ location' = ProtectedRoute(path, isAuthenticated)
    /\ UNCHANGED <<storeVars, authToken, authStorage, href, requests, session, listVars, windowVars, apiVars>>

\* the document loads at path: the pending window.location.href, or a reload or
\* typed address.  The store is created and rehydrated; the old page's requests
\* are never answered to it.
PageLoad(path) ==
    /\ href # NoNav => path = href
    /\ LET state == rehydrate(authStorage) IN
        /\ user' = state.user
        /\ token' = state.token
        /\ isAuthenticated' = state.isAuthenticated
        /\ location' = ProtectedRoute(path, state.isAuthenticated)
    /\ href' = NoNav
    /\ requests' = {}
    /\ UNCHANGED <<authToken, authStorage, session, listVars, windowVars, apiVars>>

----------------------------------------------------------------------------
(* Pagination.tsx: the page window *)

\* an entry of the rendered page list: a page number, or the '...' marker
Num(i) == [page |-> i]
Ellipsis == [ellipsis |-> TRUE]

\* const maxVisible = 5
maxVisible == 5

\* for (let i = from; i <= to; i++) pages.push(i)
RECURSIVE pushRange(_, _, _)
pushRange(pages, i, to) ==
    IF i <= to THEN pushRange(Append(pages, Num(i)), i + 1, to) ELSE pages

\* mutant: the near-end window starts one page late
getPageNumbers_lateEnd(p, totalPages) ==
    IF totalPages <= maxVisible
    THEN pushRange(<<>>, 1, totalPages)
    ELSE IF p <= 3
         THEN Append(Append(pushRange(<<>>, 1, 4), Ellipsis), Num(totalPages))
         ELSE IF p > totalPages - 2
              THEN pushRange(<<Num(1), Ellipsis>>, totalPages - 3, totalPages)
              ELSE <<Num(1), Ellipsis, Num(p - 1), Num(p), Num(p + 1), Ellipsis,
                     Num(totalPages)>>

\* mutant: the middle window leaves page 1 out
getPageNumbers_noFirst(p, totalPages) ==
    IF totalPages <= maxVisible
    THEN pushRange(<<>>, 1, totalPages)
    ELSE IF p <= 3
         THEN Append(Append(pushRange(<<>>, 1, 4), Ellipsis), Num(totalPages))
         ELSE IF p >= totalPages - 2
              THEN pushRange(<<Num(1), Ellipsis>>, totalPages - 3, totalPages)
              ELSE <<Ellipsis, Num(p - 1), Num(p), Num(p + 1), Ellipsis,
                     Num(totalPages)>>

\* Pagination.getPageNumbers(), of the props page and totalPages
getPageNumbers(p, totalPages) ==
    IF totalPages <= maxVisible
    THEN pushRange(<<>>, 1, totalPages)
    ELSE IF p <= 3
         THEN Append(Append(pushRange(<<>>, 1, 4), Ellipsis), Num(totalPages))
         ELSE IF p >= totalPages - 2
              THEN pushRange(<<Num(1), Ellipsis>>, totalPages - 3, totalPages)
              ELSE <<Num(1), Ellipsis, Num(p - 1), Num(p), Num(p + 1), Ellipsis,
                     Num(totalPages)>>

\* const limit = 9 (UsersList)
limit == 9

\* GET /api/users: the pagination metadata the backend returns for a page of
\* `total` matching users
paginationMeta(p, total) ==
    LET totalPages == (total + limit - 1) \div limit IN
    [page |-> p, limit |-> limit, total |-> total, totalPages |-> totalPages,
     hasNext |-> p < totalPages, hasPrev |-> p > 1]

\* the pages the rendered buttons pass to onPageChange: Previous unless disabled,
\* every page button, Next unless disabled
onPageChangeTargets(pg) ==
    LET shown == getPageNumbers(pg.page, pg.totalPages) IN
    {shown[i].page : i \in {j \in 1..Len(shown) : shown[j] # Ellipsis}}
        \cup (IF pg.hasPrev THEN {pg.page - 1} ELSE {})
        \cup (IF pg.hasNext THEN {pg.page + 1} ELSE {})

\* most pages the Pagination component is rendered with
MaxTotalPages == 12

\* the component renders: const pageNumbers = getPageNumbers()
RenderPagination ==
    /\ pageNumbers # getPageNumbers(pagination.page, pagination.totalPages)
    /\ pageNumbers' = getPageNumbers(pagination.page, pagination.totalPages)
    /\ UNCHANGED <<pagination, authVars, listVars, apiVars>>

\* a button of the rendered component is pressed: onPageChange(n); the parent
\* sets its page and renders the component with that page
ClickPagination ==
    /\ pageNumbers = getPageNumbers(pagination.page, pagination.totalPages)
    /\ \E n \in onPageChangeTargets(pagination) :
        /\ pagination' = paginationMeta(n, pagination.total)
        /\ pageNumbers' = getPageNumbers(n, pagination.totalPages)
    /\ UNCHANGED <<authVars, listVars, apiVars>>

WindowIdle ==
    /\ pagination = paginationMeta(1, 0)
    /\ pageNumbers = <<>>

WindowInit ==
    /\ \E totalPages \in 1..MaxTotalPages, p \in 1..MaxTotalPages :
        /\ p <= totalPages
        /\ pagination = paginationMeta(p, totalPages * limit)
    /\ pageNumbers = <<>>

----------------------------------------------------------------------------
(* UsersList and useGetUsers: the users list controller *)

\* the <option> values of the age filter offered to the model ('' is "All ages")
AgeOptions == {"18"}
parseInt(value) == CASE value = "18" -> 18

\* most pages of users the backend holds for one filter
MaxPages == 2
\* most list requests sent while the list is mounted
MaxFetches == 5
Totals == {k * limit : k \in 0..MaxPages}

\* the params of useGetUsers: limit, sortBy and sortOrder never change
Params(p, age) == [page |-> p, age |-> age]

NoQuery == [none |-> TRUE]
NoData == [undefined |-> TRUE]

\* GET /api/users: the response for params when `total` users match the filter;
\* its users are those of params.age on page params.page, `data` of them
PaginatedUsersResponse(params, total) ==
    LET before == (params.page - 1) * limit
        rest == IF total > before THEN total - before ELSE 0
    IN [params |-> params,
        data |-> IF rest > limit THEN limit ELSE rest,
        pagination |-> paginationMeta(params.page, total)]

\* useGetUsers option retry: 1
retry == 1

\* React Query: a query as first built in the cache
newQuery ==
    [status |-> "pending", data |-> NoData, fetchStatus |-> "idle", fetchFailureCount |-> 0]

\* React Query: a fetch starts; a query without data goes back to pending
fetch(q) ==
    [q EXCEPT !.fetchStatus = "fetching",
              !.fetchFailureCount = 0,
              !.status = IF q.data = NoData THEN "pending" ELSE q.status]

put(cache, params, q) ==
    [k \in DOMAIN cache \cup {params} |-> IF k = params THEN q ELSE cache[k]]

\* mutant: the response becomes the data of whatever the list shows now
setData_current(cache, params, data) ==
    [cache EXCEPT ![Params(page, ageFilter)] =
        [status |-> "success", data |-> data, fetchStatus |-> "idle",
         fetchFailureCount |-> 0]]

\* mutant: the response is stored but the query stays fetching
setData_stillFetching(cache, params, data) ==
    [cache EXCEPT ![params] =
        [status |-> "success", data |-> data, fetchStatus |-> "fetching",
         fetchFailureCount |-> 0]]

\* React Query: the response of queryFn is stored under the queryKey it was fetched for
setData(cache, params, data) ==
    [cache EXCEPT ![params] =
        [status |-> "success", data |-> data, fetchStatus |-> "idle",
         fetchFailureCount |-> 0]]

\* the query observer after a render with params: the query is built if new and
\* fetched unless it is fetching or holds data younger than staleTime
observed(cache, params, stale) ==
    LET q == IF params \in DOMAIN cache THEN cache[params] ELSE newQuery IN
    put(cache, params,
        IF q.fetchStatus = "idle" /\ (q.data = NoData \/ stale) THEN fetch(q) ELSE q)

\* the render sent a request for params
started(cache, next, params) ==
    /\ next[params].fetchStatus = "fetching"
    /\ params \in DOMAIN cache => cache[params].fetchStatus = "idle"

\* query observer updateResult: remembers the current query once it has data
withDefinedData(cache, params, last) ==
    IF cache[params].data # NoData THEN params ELSE last

\* mutant: the previous query's data is not kept
placeholderData_none(cache, last) == NoData

\* useGetUsers placeholderData: the previous query's data if it was successful
placeholderData(cache, last) ==
    IF last # NoQuery /\ cache[last].status = "success" THEN cache[last].data ELSE NoData

\* what useGetUsers returns to UsersList; pl is the placeholder data the observer
\* computed when it last rendered (it is memoized between renders)
useGetUsers(cache, params, pl) ==
    LET q == cache[params]
        shownPlaceholder == IF q.data = NoData /\ q.status = "pending" THEN pl ELSE NoData
        data == IF q.data # NoData THEN q.data ELSE shownPlaceholder
        status == IF shownPlaceholder # NoData THEN "success" ELSE q.status
        isFetching == q.fetchStatus = "fetching"
    IN [data |-> data,
        isLoading |-> isFetching /\ status = "pending",
        isFetching |-> isFetching,
        error |-> q.status = "error"]

result == useGetUsers(queryCache, Params(page, ageFilter), placeholder)

\* the branch of UsersList that renders
view ==
    IF result.isLoading /\ result.data = NoData THEN "spinner"
    ELSE IF result.error THEN "error"
    ELSE IF result.data = NoData \/ result.data.data = 0 THEN "empty"
    ELSE "grid"

\* mutant: a render with unchanged params fetches them again
render_always(p, age) ==
    /\ page' = p
    /\ ageFilter' = age
    /\ queryCache' = put(queryCache, Params(p, age),
                         fetch(IF Params(p, age) \in DOMAIN queryCache
                               THEN queryCache[Params(p, age)] ELSE newQuery))
    /\ lastQueryWithDefinedData' =
         withDefinedData(queryCache', Params(p, age), lastQueryWithDefinedData)
    /\ placeholder' = IF queryCache'[Params(p, age)].data = NoData
                      THEN placeholderData(queryCache, lastQueryWithDefinedData)
                      ELSE NoData
    /\ fetches' = fetches + 1
    /\ fetches' <= MaxFetches
    /\ UNCHANGED resolved

\* the component renders with new state: the observer follows the params.  Setting
\* the state it already has renders nothing.
render(p, age) ==
    /\ page' = p
    /\ ageFilter' = age
    /\ IF Params(p, age) = Params(page, ageFilter)
       THEN UNCHANGED <<queryCache, lastQueryWithDefinedData, fetches, placeholder>>
       ELSE \E stale \in BOOLEAN :
            /\ queryCache' = observed(queryCache, Params(p, age), stale)
            /\ lastQueryWithDefinedData' =
                 withDefinedData(queryCache', Params(p, age), lastQueryWithDefinedData)
            /\ placeholder' = IF queryCache'[Params(p, age)].data = NoData
                              THEN placeholderData(queryCache, lastQueryWithDefinedData)
                              ELSE NoData
            /\ fetches' = IF started(queryCache, queryCache', Params(p, age))
                          THEN fetches + 1 ELSE fetches
            /\ fetches' <= MaxFetches
    /\ UNCHANGED resolved

\* UsersList.handlePageChange(newPage): setPage(newPage)
handlePageChange(newPage) == render(newPage, ageFilter)

\* UsersList.handleAgeFilterChange(e): setAgeFilter(...); setPage(1)
handleAgeFilterChange(value) ==
    render(1, IF value # "" THEN {parseInt(value)} ELSE {})

\* the 'Clear filter' button: setAgeFilter(undefined)
clearFilter == render(page, {})

\* a button of the Pagination under the grid is pressed
PageClick ==
    /\ view = "grid"
    /\ result.data.pagination.totalPages > 1
    /\ \E n \in onPageChangeTargets(result.data.pagination) : handlePageChange(n)
    /\ UNCHANGED <<authVars, windowVars, apiVars>>

\* an option of the age filter above the grid is selected
FilterSelect ==
    /\ view = "grid"
    /\ \E value \in {""} \cup AgeOptions : handleAgeFilterChange(value)
    /\ UNCHANGED <<authVars, windowVars, apiVars>>

\* 'Clear filter' under "No users found" is pressed
ClearFilterClick ==
    /\ view = "empty"
    /\ ageFilter # {}
    /\ clearFilter
    /\ UNCHANGED <<authVars, windowVars, apiVars>>

\* the fetch of params succeeds with the backend's current total
FetchSuccess(params, total) ==
    /\ params \in DOMAIN queryCache
    /\ queryCache[params].fetchStatus = "fetching"
    /\ queryCache' = setData(queryCache, params, PaginatedUsersResponse(params, total))
    /\ lastQueryWithDefinedData' =
         withDefinedData(queryCache', Params(page, ageFilter), lastQueryWithDefinedData)
    /\ placeholder' = IF queryCache'[Params(page, ageFilter)].data = NoData
                      THEN placeholder ELSE NoData
    /\ resolved' = IF params = Params(page, ageFilter) THEN "current" ELSE "stale"
    /\ UNCHANGED <<page, ageFilter, fetches, authVars, windowVars, apiVars>>

\* the list request as the response interceptor sees it
listRequest == [op |-> "getUsers", url |-> Url("getUsers", "")]

\* the response interceptor's error branch on a failed list request
listResponseError(status) ==
    /\ responseError(listRequest, status)
    /\ session' = IF teardown(listRequest, status) THEN Event("teardown", NULL) ELSE session

\* the fetch of params fails and React Query calls queryFn again (retry: 1); a
\* query that the list no longer observes has its retries cancelled
FetchRetry(params, status) ==
    /\ params \in DOMAIN queryCache
    /\ queryCache[params].fetchStatus = "fetching"
    /\ queryCache[params].fetchFailureCount < retry
    /\ params = Params(page, ageFilter)
    /\ listResponseError(status)
    /\ queryCache' = [queryCache EXCEPT ![params].fetchFailureCount = @ + 1]
    /\ fetches' = fetches + 1
    /\ fetches' <= MaxFetches
    /\ UNCHANGED <<page, ageFilter, lastQueryWithDefinedData, placeholder, resolved,
                   storeVars, authStorage, location, requests, windowVars, apiVars>>

\* the fetch of params fails with its retry used up or cancelled: the query is
\* in error
FetchError(params, status) ==
    /\ params \in DOMAIN queryCache
    /\ queryCache[params].fetchStatus = "fetching"
    /\ queryCache[params].fetchFailureCount >= retry \/ params # Params(page, ageFilter)
    /\ listResponseError(status)
    /\ queryCache' = [queryCache EXCEPT ![params] =
         [@ EXCEPT !.status = "error", !.fetchStatus = "idle"]]
    /\ placeholder' = IF params = Params(page, ageFilter) THEN NoData ELSE placeholder
    /\ resolved' = IF params = Params(page, ageFilter) THEN "current" ELSE "stale"
    /\ UNCHANGED <<page, ageFilter, lastQueryWithDefinedData, fetches,
                   storeVars, authStorage, location, requests, windowVars, apiVars>>

\* UsersList is not mounted
ListIdle ==
    /\ page = 1
    /\ ageFilter = {}
    /\ queryCache = <<>>
    /\ lastQueryWithDefinedData = NoQuery
    /\ fetches = 0
    /\ placeholder = NoData
    /\ resolved = "none"

\* UsersList has just mounted: useState(1), useState(undefined), the first fetch
ListInit ==
    /\ page = 1
    /\ ageFilter = {}
    /\ queryCache = observed(<<>>, Params(1, {}), FALSE)
    /\ lastQueryWithDefinedData = NoQuery
    /\ fetches = 1
    /\ placeholder = NoData
    /\ resolved = "none"

\* nothing has been called on the API layer
ApiIdle ==
    /\ queryInput = NoParams
    /\ requestUrl = NoUrl
    /\ rejected = NoRejection
    /\ reset = NoOutcome

----------------------------------------------------------------------------
(* userApi.ts: getUsers *)

\* UserQueryParams: every field is optional ({} is not set, {v} is set to v)
UserQueryParams ==
    [page : {{}, {1}, {2}},
     limit : {{}, {limit}},
     age : {{}} \cup {{parseInt(value)} : value \in AgeOptions},
     sortBy : {{}, {"createdAt"}},
     sortOrder : {{}, {"desc"}},
     search : {{}, {""}, {"ann"}}]

Digit == <<"0", "1", "2", "3", "4", "5", "6", "7", "8", "9">>

\* Number.prototype.toString()
RECURSIVE toString(_)
toString(n) ==
    IF n < 10 THEN Digit[n + 1] ELSE toString(n \div 10) \o Digit[(n % 10) + 1]

\* queryParams.append(key, value), on the query string as a sequence of tokens
append(queryParams, key, value) ==
    (IF queryParams = <<>> THEN <<>> ELSE queryParams \o <<"&">>) \o <<key, "=", value>>

\* if (params.<key>) queryParams.append(key, params.<key>.toString()), for a number
appendNumber(queryParams, key, field) ==
    IF \E n \in field : n # 0
    THEN append(queryParams, key, toString(CHOOSE n \in field : TRUE))
    ELSE queryParams

\* if (params.<key>) queryParams.append(key, params.<key>), for a string
appendString(queryParams, key, field) ==
    IF \E str \in field : str # ""
    THEN append(queryParams, key, CHOOSE str \in field : TRUE)
    ELSE queryParams

\* mutant: age is appended whether set or not, as the empty string when unset
getUsers_emptyAge(params) ==
    LET q1 == appendNumber(<<>>, "page", params.page)
        q2 == appendNumber(q1, "limit", params.limit)
        q3 == IF params.age = {} THEN append(q2, "age", "")
              ELSE appendNumber(q2, "age", params.age)
        q4 == appendString(q3, "sortBy", params.sortBy)
        q5 == appendString(q4, "sortOrder", params.sortOrder)
        queryString == appendString(q5, "search", params.search)
    IN <<"api", "users">> \o (IF queryString # <<>> THEN <<"?">> \o queryString ELSE <<>>)

\* userApi.getUsers(params): the URL it requests
getUsers(params) ==
    LET q1 == appendNumber(<<>>, "page", params.page)
        q2 == appendNumber(q1, "limit", params.limit)
        q3 == appendNumber(q2, "age", params.age)
        q4 == appendString(q3, "sortBy", params.sortBy)
        q5 == appendString(q4, "sortOrder", params.sortOrder)
        queryString == appendString(q5, "search", params.search)
    IN <<"api", "users">> \o (IF queryString # <<>> THEN <<"?">> \o queryString ELSE <<>>)

\* getUsers(queryInput) is called: the URL is built and requested
CallGetUsers ==
    /\ requestUrl = NoUrl
    /\ requestUrl' = getUsers(queryInput)
    /\ requests' = requests \cup
         {[op |-> "getUsers", url |-> getUsers(queryInput),
           auth |-> requestInterceptor(authToken)]}
    /\ UNCHANGED <<storeVars, authToken, authStorage, location, href, session, listVars,
                   windowVars, queryInput, rejected, reset>>

----------------------------------------------------------------------------
(* apiClient.ts: the error a call is rejected with *)

\* error.response of an AxiosError when the request got no answer
NoResp == [absent |-> TRUE]
\* response.data when the answer has no JSON body
NoBody == [empty |-> TRUE]

ServerMessages == {undefined, "Invalid credentials"}
TransportMessages == {undefined, "Request failed"}
\* response.data.errors: the field-level error list, named by its content
FieldErrors == {undefined, "email: invalid"}

\* the AxiosErrors handed to the response interceptor
AxiosErrors ==
    [response : {NoResp} \cup
                [status : Statuses \ {NoResponse},
                 data : {NoBody} \cup [message : ServerMessages, errors : FieldErrors]],
     message : TransportMessages]

\* error.response?.status; NoResponse stands for undefined
responseStatus(error) == IF error.response # NoResp THEN error.response.status ELSE NoResponse

\* error.response?.data?.message
dataMessage(error) ==
    IF error.response # NoResp /\ error.response.data # NoBody
    THEN error.response.data.message ELSE undefined

\* error.response?.data?.errors
dataErrors(error) ==
    IF error.response # NoResp /\ error.response.data # NoBody
    THEN error.response.data.errors ELSE undefined

\* JavaScript a || b on strings | undefined
or(a, b) == IF a # undefined /\ a # "" THEN a ELSE b

\* mutant: the transport message is preferred to the server's
reject_transportFirst(error) ==
    [message |-> or(or(error.message, dataMessage(error)), "An unexpected error occurred"),
     status |-> responseStatus(error),
     errors |-> dataErrors(error)]

\* response interceptor: the value of Promise.reject({message, status, errors})
reject(error) ==
    [message |-> or(or(dataMessage(error), error.message), "An unexpected error occurred"),
     status |-> responseStatus(error),
     errors |-> dataErrors(error)]

\* a call fails: the response interceptor's error branch, with the rejection
\* its caller receives
Reject(r, error) ==
    /\ r \in requests
    /\ r.op # "requestPasswordReset"
    /\ requests' = requests \ {r}
    /\ responseError(r, responseStatus(error))
    /\ session' = IF teardown(r, responseStatus(error)) THEN Event("teardown", NULL) ELSE session
    /\ rejected' = [call |-> r.op, reason |-> reject(error)]
    /\ UNCHANGED <<storeVars, authStorage, location, listVars, windowVars,
                   queryInput, requestUrl, reset>>

----------------------------------------------------------------------------
(* authApi.ts: requestPasswordReset *)

Emails == {"ann@x.com", "nonexistent@x.com"}

\* requestPasswordReset is awaiting the answer
Pending == [state |-> "pending"]

\* what the backend may put in the body of its answer
ResetBodies == {"reset link sent", "no such account"}

\* POST /api/auth/forgot-password on the backend: success whether or not the
\* email has an account; the body is whatever the backend chooses
forgotPassword(email, hasAccount, body) ==
    [status |-> 200, data |-> [success |-> TRUE, message |-> body]]

\* mutant: the call returns the message of the answer
requestPasswordReset_returnsMessage(response, error) ==
    IF response # NoResp
    THEN [state |-> "resolved", value |-> response.data.message]
    ELSE [state |-> "rejected", reason |-> reject(error)]

\* authApi.requestPasswordReset: await apiClient.post(...), a Promise<void>:
\* resolved with undefined on an answer, rejected by the interceptor without one
requestPasswordReset(response, error) ==
    IF response # NoResp
    THEN [state |-> "resolved", value |-> undefined]
    ELSE [state |-> "rejected", reason |-> reject(error)]

\* useRequestPasswordReset mutationFn: the call is made.  `reset` follows it in
\* two runs that differ only in whether the email has an account.
RequestPasswordReset(email) ==
    /\ Send("requestPasswordReset", "")
    /\ reset' = [email |-> email, exists |-> Pending, absent |-> Pending]
    /\ UNCHANGED <<storeVars, authToken, authStorage, location, href, session, listVars,
                   windowVars, queryInput, requestUrl, rejected>>

\* the call settles: with the backend's answer in each run, or in both runs
\* without an answer (network error, timeout)
ResetSettled(r, answered, bodies, message) ==
    /\ r \in requests
    /\ r.op = "requestPasswordReset"
    /\ requests' = requests \ {r}
    /\ LET error == [response |-> NoResp, message |-> message]
           answer(hasAccount) ==
               IF answered
               THEN forgotPassword(reset.email, hasAccount,
                                   IF hasAccount THEN bodies[1] ELSE bodies[2])
               ELSE NoResp
       IN /\ reset' = [reset EXCEPT
                          !.exists = requestPasswordReset(answer(TRUE), error),
                          !.absent = requestPasswordReset(answer(FALSE), error)]
          /\ rejected' = IF answered THEN rejected
                         ELSE [call |-> r.op, reason |-> reject(error)]
    /\ UNCHANGED <<storeVars, authToken, authStorage, location, href, session, listVars,
                   windowVars, queryInput, requestUrl>>

----------------------------------------------------------------------------
(* userHooks.ts: useUpdateUser and useDeleteUser on the profile *)

Ages == {18, 21}
\* values of updatedAt, which the backend computes on every write
Times == {"mon", "tue"}

\* AuthUser as the store holds it on the profile; email and createdAt never change
AuthUsers == [id : Ids, name : Names, age : Ages, updatedAt : Times]

\* UpdateUserData: the payload of the profile form
UpdateUserData == [name : Names, age : Ages]

\* Partial<AuthUser>: the argument type of authStore.updateUser
PartialAuthUsers ==
    [name : Names] \cup [age : Ages] \cup [updatedAt : Times]
    \cup [name : Names, age : Ages] \cup [name : Names, updatedAt : Times]
    \cup [age : Ages, updatedAt : Times]
    \cup [name : Names, age : Ages, updatedAt : Times]

\* new Error('User not found'), thrown by mutationFn before any request
UserNotFound == [message |-> "User not found"]

\* a mutationFn of the profile: throws when the store has no user id, else sends
\* the request
mutationFn(op, body) ==
    IF user = NullUser
    THEN /\ rejected' = [call |-> op, reason |-> UserNotFound]
         /\ UNCHANGED requests
    ELSE /\ Cardinality(requests) < MaxInflight
         /\ requests' = requests \cup
              {[op |-> op, url |-> Url(op, user.id),
                auth |-> requestInterceptor(authToken), data |-> body]}
         /\ UNCHANGED rejected

\* EditProfileForm submit: useUpdateUser mutationFn(data)
SubmitUpdate(data) ==
    /\ location = "/profile"
    /\ mutationFn("updateCurrentUser", data)
    /\ UNCHANGED <<storeVars, authToken, authStorage, location, href, session, listVars,
                   windowVars, queryInput, requestUrl, reset>>

\* the delete-account control: useDeleteUser mutationFn()
SubmitDelete ==
    /\ location \in ProtectedRoutes
    /\ mutationFn("deleteCurrentUser", undefined)
    /\ UNCHANGED <<storeVars, authToken, authStorage, location, href, session, listVars,
                   windowVars, queryInput, requestUrl, reset>>

\* some caller of the store's updateUser action
UpdateUserCall(updatedFields) ==
    /\ updateUser(updatedFields)
    /\ UNCHANGED <<location, href, requests, session, listVars, windowVars, apiVars>>

AuthInit ==
    /\ user = initialState.user
    /\ token = initialState.token
    /\ isAuthenticated = initialState.isAuthenticated
    /\ authToken = NULL
    /\ authStorage = NoStorage
    /\ location = "/login"
    /\ href = NoNav
    /\ requests = {}
    /\ session = Event("none", NULL)

\* the session flow, with the users list and the page window left out
Init == AuthInit /\ ListIdle /\ WindowIdle /\ ApiIdle

Next ==
    \/ SubmitAuth
    \/ \E r \in requests, u \in Users, t \in Tokens : AuthSuccess(r, u, t)
    \/ SendProtected
    \/ \E r \in requests, u \in Users : UpdateSuccess(r, u)
    \/ \E r \in requests : DeleteSuccess(r)
    \/ \E r \in requests : PlainSuccess(r)
    \/ \E r \in requests, status \in Statuses : Failure(r, status)
    \/ LogoutClick
    \/ \E path \in Routes : Navigate(path)
    \/ \E path \in Routes : PageLoad(path)

Spec == Init /\ [][Next]_vars

\* a session as left by a successful login, the user on /users
LoggedIn ==
    \E u \in {[id |-> "u1", name |-> "ann"]}, t \in {"t1"} :
        /\ user = u /\ token = t /\ isAuthenticated = TRUE
        /\ authToken = t
        /\ authStorage = partialize([user |-> u, token |-> t])
        /\ location = "/users"
        /\ href = NoNav
        /\ requests = {}
        /\ session = Event("login", t)

\* the users list controller, in a session that stays logged in
InitList == LoggedIn /\ ListInit /\ WindowIdle /\ ApiIdle

NextList ==
    \/ PageClick
    \/ FilterSelect
    \/ ClearFilterClick
    \/ \E params \in DOMAIN queryCache, total \in Totals : FetchSuccess(params, total)
    \/ \E params \in DOMAIN queryCache, status \in Statuses \ {Unauthorized} :
          FetchRetry(params, status)
    \/ \E params \in DOMAIN queryCache, status \in Statuses \ {Unauthorized} :
          FetchError(params, status)

SpecList == InitList /\ [][NextList]_vars

\* the users list paged through while the session's token may be refused
NextExpiry ==
    \/ PageClick
    \/ \E params \in DOMAIN queryCache, total \in Totals : FetchSuccess(params, total)
    \/ \E params \in DOMAIN queryCache, status \in Statuses : FetchRetry(params, status)
    \/ \E params \in DOMAIN queryCache, status \in Statuses : FetchError(params, status)

SpecExpiry == InitList /\ [][NextExpiry]_vars

\* the users list when every request succeeds and the user stops after a while:
\* each fetch in flight is eventually answered
AnswerFetch ==
    \E params \in DOMAIN queryCache, total \in Totals : FetchSuccess(params, total)

\* most list requests sent before the user stops changing page and filter
MaxSettleFetches == 4

NextSettle ==
    \/ fetches < MaxSettleFetches /\ PageClick
    \/ fetches < MaxSettleFetches /\ FilterSelect
    \/ fetches < MaxSettleFetches /\ ClearFilterClick
    \/ AnswerFetch

SpecSettle == InitList /\ [][NextSettle]_vars /\ WF_vars(AnswerFetch)

\* the Pagination component alone, over every page of every page count
InitWindow == AuthInit /\ ListIdle /\ WindowInit /\ ApiIdle

NextWindow == RenderPagination \/ ClickPagination

SpecWindow == InitWindow /\ [][NextWindow]_vars

\* a page load over any content of localStorage: what an earlier session, another
\* tab or a hand edit may have left under 'auth-storage' and 'authToken'
PersistedTokens == {NULL, ""} \cup Tokens
PersistedUsers == {NullUser} \cup Users

InitRehydrate ==
    /\ user = initialState.user
    /\ token = initialState.token
    /\ isAuthenticated = initialState.isAuthenticated
    /\ authToken \in PersistedTokens
    /\ authStorage \in {NoStorage} \cup [user : PersistedUsers, token : PersistedTokens]
    /\ location = "/login"
    /\ href = NoNav
    /\ requests = {}
    /\ session = Event("none", NULL)
    /\ ListIdle /\ WindowIdle /\ ApiIdle

NextRehydrate ==
    \/ \E path \in Routes : PageLoad(path)
    \/ \E path \in Routes : Navigate(path)
    \/ SubmitAuth
    \/ SendProtected

SpecRehydrate == InitRehydrate /\ [][NextRehydrate]_vars

\* the API layer, one call at a time: each call of a session, its rejection and
\* what the rejection does to the session
InitClient == LoggedIn /\ ListIdle /\ WindowIdle /\ ApiIdle

NextClient ==
    \/ requests = {} /\ SubmitAuth
    \/ requests = {} /\ SendProtected
    \/ \E r \in requests, error \in AxiosErrors : Reject(r, error)
    \/ \E path \in Routes : Navigate(path)
    \/ \E path \in Routes : PageLoad(path)

SpecClient == InitClient /\ [][NextClient]_vars

\* getUsers alone, called once with each value of its params
InitQuery ==
    /\ LoggedIn /\ ListIdle /\ WindowIdle
    /\ queryInput \in UserQueryParams
    /\ requestUrl = NoUrl
    /\ rejected = NoRejection
    /\ reset = NoOutcome

NextQuery == CallGetUsers

SpecQuery == InitQuery /\ [][NextQuery]_vars

\* password reset requests, made from any page, in or out of a session
NextReset ==
    \/ requests = {} /\ \E email \in Emails : RequestPasswordReset(email)
    \/ \E r \in requests, answered \in BOOLEAN, bodies \in ResetBodies \X ResetBodies,
          message \in TransportMessages : ResetSettled(r, answered, bodies, message)
    \/ LogoutClick
    \/ \E path \in Routes : Navigate(path)
    \/ \E path \in Routes : PageLoad(path)

SpecReset == InitClient /\ [][NextReset]_vars

\* the store's updateUser alone, over every state a page load can leave the store
\* in and every patch
InitStore ==
    /\ \E u \in {NullUser} \cup {a \in AuthUsers : a.updatedAt = "mon"},
          t \in PersistedTokens :
        LET state == rehydrate([user |-> u, token |-> t]) IN
        /\ user = state.user
        /\ token = state.token
        /\ isAuthenticated = state.isAuthenticated
        /\ authToken \in PersistedTokens
        /\ authStorage = [user |-> u, token |-> t]
        /\ location = ProtectedRoute("/profile", state.isAuthenticated)
    /\ href = NoNav
    /\ requests = {}
    /\ session = Event("none", NULL)
    /\ ListIdle /\ WindowIdle /\ ApiIdle

NextStore == \E updatedFields \in PartialAuthUsers : UpdateUserCall(updatedFields)

SpecStore == InitStore /\ [][NextStore]_vars

\* the profile page of a session, one call at a time: the user as the login
\* stored it, or absent from the persisted state
InitProfile ==
    /\ \E u \in {NullUser} \cup {a \in AuthUsers : a.id = "u1" /\ a.updatedAt = "mon"} :
        LET state == rehydrate([user |-> u, token |-> "t1"]) IN
        /\ user = state.user
        /\ token = state.token
        /\ isAuthenticated = state.isAuthenticated
        /\ authToken = "t1"
        /\ authStorage = [user |-> u, token |-> "t1"]
    /\ location = "/profile"
    /\ href = NoNav
    /\ requests = {}
    /\ session = Event("login", "t1")
    /\ ListIdle /\ WindowIdle /\ ApiIdle

NextProfile ==
    \/ requests = {} /\ \E data \in UpdateUserData : SubmitUpdate(data)
    \/ requests = {} /\ SubmitDelete
    \/ \E r \in requests, u \in AuthUsers : UpdateSuccess(r, u)
    \/ \E r \in requests : DeleteSuccess(r)
    \/ \E r \in requests, error \in AxiosErrors : Reject(r, error)
    \/ LogoutClick
    \/ \E path \in Routes : PageLoad(path)

SpecProfile == InitProfile /\ [][NextProfile]_vars

----------------------------------------------------------------------------
(* Properties *)

\* C1: in every reachable state of the auth store, isAuthenticated is true
\* exactly when token is present (non-null, non-empty).
C1_DerivedFlag == isAuthenticated <=> Truthy(token)

\* the store was rehydrated with a token after a 401 teardown and a page load
C1_Witness ==
    /\ session.ev = "teardown" /\ href = NoNav
    /\ isAuthenticated /\ Truthy(token)

\* C2: after setAuth(U, T), called by the login/register success handler from
\* any state, the store holds user = U, token = T, isAuthenticated = true and
\* localStorage 'authToken' equals T.
C2_SetAuth ==
    [][\A r \in requests, u \in Users, t \in Tokens :
        AuthSuccess(r, u, t) =>
            /\ user' = u /\ token' = t /\ isAuthenticated' = TRUE
            /\ authToken' = t]_vars

\* a login response for user u2 with token t2 has been handled
C2_Witness ==
    /\ session = Event("login", "t2")
    /\ user = [id |-> "u2", name |-> "bob"] /\ token = "t2" /\ authToken = "t2"
    /\ isAuthenticated

\* user, token, flag and side-channel token are all cleared
Cleared ==
    /\ user = NullUser /\ token = NULL /\ isAuthenticated = FALSE
    /\ authToken = NULL

\* a step that calls authStore.logout()
LogoutCall == LogoutClick \/ \E r \in requests : DeleteSuccess(r)

\* C3: after logout() the store has user = null, token = null,
\* isAuthenticated = false and 'authToken' is absent; logout() called in that
\* state changes nothing.
C3_Logout ==
    [][LogoutCall =>
        /\ Cleared'
        /\ Cleared => UNCHANGED <<user, token, isAuthenticated, authToken, authStorage>>]_vars

\* logged out, with a delete request still in flight whose success calls logout() again
C3_Witness ==
    /\ session.ev = "logout" /\ Cleared
    /\ \E r \in requests : r.op = "deleteCurrentUser"

\* C4: rehydrating from a persisted {user: U, token: T} yields
\* isAuthenticated = !!T for every U: the session starts authenticated exactly
\* when a persisted non-empty token exists.
C4_Rehydration ==
    [][\A path \in Routes : PageLoad(path) =>
        /\ isAuthenticated' = (authStorage # NoStorage /\ authStorage.token \notin {NULL, ""})
        /\ authStorage # NoStorage => user' = authStorage.user /\ token' = authStorage.token]_vars

\* rehydrated from {user: null, token: "t1"}: authenticated without a user
C4_Witness == isAuthenticated /\ user = NullUser /\ token = "t1"

C6_TeardownClearsStore ==
    session.ev = "teardown" => user = NullUser /\ token = NULL /\ ~isAuthenticated

\* C7: a 401 to an authenticated list-users request redirects to /login, and
\* every list-users request sent while no newer login/registration has
\* succeeded carries no Authorization header.
C7_NoHeaderAfterTeardown ==
    [][/\ \A r \in requests :
            (r.op = "getUsers" /\ r.auth # NoHeader /\ Failure(r, Unauthorized))
                => href' = "/login" /\ session'.ev = "teardown"
       /\ \A r \in requests' \ requests :
            (r.op = "getUsers" /\ session.ev # "login") => r.auth = NoHeader]_vars

\* after the teardown and the page load a list request is in flight without header
C7_Witness ==
    /\ session.ev = "teardown" /\ href = NoNav /\ location = "/users"
    /\ \E r \in requests : r.op = "getUsers" /\ r.auth = NoHeader

\* C8: after a login or registration succeeds with token T, isAuthenticated is
\* true and every request sent until the next logout, account deletion, 401
\* teardown or newer login/registration carries 'Authorization: Bearer T'.
C8_BearerAfterLogin ==
    /\ [](session.ev = "login" => isAuthenticated /\ authToken = session.tok)
    /\ [][\A r \in requests' \ requests :
            session.ev = "login" => r.auth = <<"Bearer", session.tok>>]_vars

\* a list request sent under the second login's token
C8_Witness ==
    /\ session = Event("login", "t2")
    /\ \E r \in requests : r.op = "getUsers" /\ r.auth = <<"Bearer", "t2">>

\* the page window as the specification states it
C9_Window(p, totalPages) ==
    IF totalPages <= 5 THEN [i \in 1..totalPages |-> Num(i)]
    ELSE IF p <= 3 THEN <<Num(1), Num(2), Num(3), Num(4), Ellipsis, Num(totalPages)>>
    ELSE IF p >= totalPages - 2
         THEN <<Num(1), Ellipsis, Num(totalPages - 3), Num(totalPages - 2),
                Num(totalPages - 1), Num(totalPages)>>
    ELSE <<Num(1), Ellipsis, Num(p - 1), Num(p), Num(p + 1), Ellipsis, Num(totalPages)>>

\* C9: for every 1 <= page <= totalPages the rendered page numbers are the
\* stated window; page 1, 5 and 9 of 10 and page 3 of 4 give the stated lists.
C9_PageWindow ==
    /\ pageNumbers # <<>> =>
         /\ pagination.page \in 1..pagination.totalPages
         /\ pageNumbers = C9_Window(pagination.page, pagination.totalPages)
    /\ getPageNumbers(1, 10) = <<Num(1), Num(2), Num(3), Num(4), Ellipsis, Num(10)>>
    /\ getPageNumbers(5, 10) = <<Num(1), Ellipsis, Num(4), Num(5), Num(6), Ellipsis, Num(10)>>
    /\ getPageNumbers(9, 10) = <<Num(1), Ellipsis, Num(7), Num(8), Num(9), Num(10)>>
    /\ getPageNumbers(3, 4) = <<Num(1), Num(2), Num(3), Num(4)>>

\* page 4 of 6 is rendered: the near-end window at its lower edge
C9_Witness ==
    /\ pagination.page = 4 /\ pagination.totalPages = 6
    /\ pageNumbers = <<Num(1), Ellipsis, Num(3), Num(4), Num(5), Num(6)>>

\* C10 (as claimed): every action that changes the age filter leaves page equal
\* to 1, so no list request goes out with a changed filter and page # 1.
C10_FilterResetsPage == [][ageFilter' # ageFilter => page' = 1]_vars

\* the query of the list's current (page, filter) state
current == queryCache[Params(page, ageFilter)]

\* C11: of two list requests with different params, whichever resolves last,
\* once the request for the current (page, filter) has resolved the list shows
\* its response (or its error); a response for other params shows only as the
\* placeholder of a pending request, and its arrival leaves a resolved list as it is.
C11_StaleResponseGuard ==
    /\ [](/\ current.fetchStatus = "idle" =>
                view = "error" \/ result.data.params = Params(page, ageFilter)
          /\ (result.data # NoData /\ result.data.params # Params(page, ageFilter)) =>
                current.fetchStatus = "fetching" /\ current.data = NoData)
    /\ [][\A params \in DOMAIN queryCache, total \in Totals :
            (FetchSuccess(params, total) /\ params # Params(page, ageFilter)
                /\ current.fetchStatus = "idle")
            => result' = result]_vars

\* the response for earlier params arrived after the current request resolved,
\* and the list shows the current request's users
C11_Witness ==
    /\ resolved = "stale"
    /\ current.fetchStatus = "idle" /\ current.status = "success"
    /\ view = "grid" /\ result.data.params = Params(page, ageFilter)
    /\ ageFilter = {18}
    /\ \E k \in DOMAIN queryCache :
        k.age = {} /\ queryCache[k].fetchStatus = "idle" /\ queryCache[k].data # NoData

\* C12: selecting the filter value that is already selected, with page at 1,
\* changes no query state and sends no request, whether or not the request of
\* the first selection is still pending.
C12_SameFilterTwice ==
    [][(FilterSelect /\ ageFilter' = ageFilter /\ page = 1) =>
            UNCHANGED <<page, queryCache, lastQueryWithDefinedData, fetches>>]_vars

\* filter 18 was selected, its request is pending and the select is still offered
C12_Witness ==
    /\ ageFilter = {18} /\ page = 1
    /\ current.fetchStatus = "fetching" /\ current.data = NoData
    /\ view = "grid"

\* C13: a login or registration call that fails, with any status or with no
\* answer, leaves the store's user, token and isAuthenticated, 'authToken' and
\* 'auth-storage' as they were and assigns no redirect.
C13_FailedAuthKeepsSession ==
    [][\A r \in requests :
        (r.op \in {"login", "register"} /\ requests' = requests \ {r}) =>
            \A error \in AxiosErrors :
                Reject(r, error) =>
                    UNCHANGED <<user, token, isAuthenticated, authToken, authStorage,
                                href, location>>]_vars

\* a registration made from a live session was rejected with 401; the session stands
C13_Witness ==
    /\ rejected # NoRejection
    /\ rejected.call = "register" /\ rejected.reason.status = Unauthorized
    /\ session.ev = "login" /\ isAuthenticated /\ token = "t1" /\ authToken = "t1"
    /\ authStorage # NoStorage /\ href = NoNav

C15_HeaderFromAuthToken ==
    [][\A r \in requests' \ requests :
        r.auth = IF authToken # NULL /\ authToken # ""
                 THEN <<"Bearer", authToken>> ELSE <<>>]_vars

\* the store holds t1 but 'authToken' is the empty string: the request went
\* out without a header
C15_Witness ==
    /\ authToken = "" /\ token = "t1" /\ isAuthenticated
    /\ \E r \in requests : r.op = "getCurrentUser" /\ r.auth = <<>>

\* C16 (as claimed): the controller's page stays within 1..totalPages of the
\* current query, also when the page was chosen from the pagination of a
\* previous query shown as placeholder.
\* Stated for a backend whose users did not change: the responses held for the
\* current filter agree on the total.
C16_PageInRange ==
    (/\ current.status = "success" /\ current.fetchStatus = "idle"
     /\ \A k \in DOMAIN queryCache :
            (k.age = ageFilter /\ queryCache[k].data # NoData) =>
                queryCache[k].data.pagination.total = current.data.pagination.total)
    => page = 1 \/ page <= current.data.pagination.totalPages

\* C17 (as claimed): the full spinner shows only while a fetch is pending and no
\* earlier response exists; while a fetch is pending and some query holds an
\* earlier successful response, the list keeps showing a response.
C17_SpinnerOnlyOnFirstLoad ==
    /\ view = "spinner" => current.fetchStatus = "fetching"
    /\ (current.fetchStatus = "fetching"
            /\ \E k \in DOMAIN queryCache : queryCache[k].data # NoData)
       => view # "spinner" /\ result.data # NoData

\* the text of a field's value in the query string
C18_Text(key, v) ==
    IF key \in {"page", "limit", "age"}
    THEN CASE v = 1 -> "1" [] v = 2 -> "2" [] v = 9 -> "9" [] v = 18 -> "18"
    ELSE v

\* the positions of the URL at which key starts a key=value pair
C18_At(url, key) == {i \in 1..(Len(url) - 2) : url[i] = key /\ url[i + 1] = "="}

\* C18: the URL has a pair key=value, once, for exactly the fields set to a
\* non-empty value, no pair for any other field and no pair with an empty
\* value; with no field set it is /api/users without '?'.
C18_QueryComposition ==
    requestUrl # NoUrl =>
        LET keys == {"page", "limit", "age", "sortBy", "sortOrder", "search"}
            sent == {key \in keys :
                        /\ queryInput[key] # {}
                        /\ key \in {"sortBy", "sortOrder", "search"} => queryInput[key] # {""}}
        IN /\ SubSeq(requestUrl, 1, 2) = <<"api", "users">>
           /\ sent = {} => requestUrl = <<"api", "users">>
           /\ sent # {} => /\ requestUrl[3] = "?"
                           /\ Len(requestUrl) = 3 + 4 * Cardinality(sent) - 1
           /\ \A key \in keys :
                IF key \in sent
                THEN \E i \in C18_At(requestUrl, key) :
                        /\ C18_At(requestUrl, key) = {i}
                        /\ requestUrl[i + 2] =
                             C18_Text(key, CHOOSE v \in queryInput[key] : TRUE)
                ELSE \A i \in 1..Len(requestUrl) : requestUrl[i] # key
           /\ \A i \in 1..Len(requestUrl) :
                requestUrl[i] = "=" =>
                    i < Len(requestUrl) /\ requestUrl[i + 1] \notin {"", "&"}
           /\ \E r \in requests : r.url = requestUrl

\* called with page, limit and sort set, age unset and search empty
C18_Witness ==
    /\ queryInput = [page |-> {2}, limit |-> {9}, age |-> {}, sortBy |-> {"createdAt"},
                     sortOrder |-> {"desc"}, search |-> {""}]
    /\ requestUrl = <<"api", "users", "?", "page", "=", "2", "&", "limit", "=", "9", "&",
                      "sortBy", "=", "createdAt", "&", "sortOrder", "=", "desc">>

\* C19: every rejection has exactly the fields message, status and errors:
\* message is the server's message, else the transport's, else the generic
\* text; status is the response's status, or none without a response; errors
\* is the server's field error list, or none; on the 401 teardown path as on
\* every other.
C19_UniformError ==
    [][\A r \in requests \ requests' :
        \A error \in AxiosErrors :
            Reject(r, error) =>
                LET resp == error.response
                    body == IF resp # NoResp THEN resp.data ELSE NoBody
                IN /\ DOMAIN rejected'.reason = {"message", "status", "errors"}
                   /\ rejected'.reason.message =
                        IF body # NoBody /\ body.message # undefined THEN body.message
                        ELSE IF error.message # undefined THEN error.message
                        ELSE "An unexpected error occurred"
                   /\ rejected'.reason.status =
                        IF resp # NoResp THEN resp.status ELSE NoResponse
                   /\ rejected'.reason.errors =
                        IF body # NoBody THEN body.errors ELSE undefined]_vars

\* a 401 without a body tore the session down and was rejected with the
\* transport's message
C19_Witness ==
    /\ session.ev = "teardown" /\ authToken = NULL /\ href = "/login"
    /\ rejected # NoRejection
    /\ rejected.call = "getUsers"
    /\ rejected.reason =
         [message |-> "Request failed", status |-> Unauthorized, errors |-> undefined]

\* C20 (as claimed): a list request is sent only by a user action, one that
\* changes the page or the filter; a failed request is never sent again on
\* its own.
C20_NoAutomaticRetry ==
    [][fetches' # fetches => (page' # page \/ ageFilter' # ageFilter)]_vars

\* C21: updateUser(fields) replaces, in the store's user, exactly the fields the
\* patch carries and keeps every other field, and leaves token and
\* isAuthenticated as they were; with no user in the store, user stays null.
C21_ShallowMerge ==
    [][\A updatedFields \in PartialAuthUsers :
          UpdateUserCall(updatedFields) =>
            /\ token' = token
            /\ isAuthenticated' = isAuthenticated
            /\ user = NullUser => user' = NullUser
            /\ user # NullUser =>
                 /\ DOMAIN user' = DOMAIN user
                 /\ \A f \in DOMAIN user :
                      user'[f] = IF f \in DOMAIN updatedFields
                                 THEN updatedFields[f] ELSE user[f]]_vars

\* a patch has set updatedAt in a session whose token is still held
C21_Witness ==
    /\ user # NullUser /\ user.updatedAt = "tue"
    /\ token = "t1" /\ isAuthenticated

\* C22: when a profile update succeeds the store's user takes the fields of the
\* record the server returned (updatedAt among them), whatever payload was sent;
\* when it fails the store's user is unchanged.
C22_ServerRecordWins ==
    [][\A r \in requests :
          r.op = "updateCurrentUser" =>
            /\ \A u \in AuthUsers :
                 (UpdateSuccess(r, u) /\ user # NullUser) =>
                    \A f \in DOMAIN u : user'[f] = u[f]
            /\ requests' = requests \ {r} =>
                 \A error \in AxiosErrors : Reject(r, error) => user' = user]_vars

\* the server answered the update with its own updatedAt and the store holds it
C22_Witness ==
    /\ user # NullUser /\ user.updatedAt = "tue"
    /\ requests = {} /\ rejected = NoRejection /\ session.ev = "login"

\* C23 (as claimed): a failed deletion leaves the session unchanged.
C23_FailedDeleteKeepsSession ==
    [][\A r \in requests :
          (r.op = "deleteCurrentUser" /\ requests' = requests \ {r}) =>
             \A error \in AxiosErrors :
                Reject(r, error) =>
                   UNCHANGED <<user, token, isAuthenticated, authToken, authStorage>>]_vars

\* C23: a successful deletion leaves the store without user and token, the flag
\* false and 'authToken' absent; a deletion that fails with anything but a 401
\* leaves the session unchanged, as does one attempted with no user in the
\* store, which sends no request.
C23_DeleteClearsSession ==
    [][/\ \A r \in requests :
            /\ DeleteSuccess(r) => Cleared'
            /\ (r.op = "deleteCurrentUser" /\ requests' = requests \ {r}) =>
                 \A error \in AxiosErrors :
                    (Reject(r, error) /\ responseStatus(error) # Unauthorized) =>
                       UNCHANGED <<user, token, isAuthenticated, authToken, authStorage>>
       /\ (SubmitDelete /\ user = NullUser) =>
            /\ requests' = requests
            /\ UNCHANGED <<user, token, isAuthenticated, authToken, authStorage>>]_vars

\* the account was deleted and the session is cleared
C23_Witness == session.ev = "delete" /\ Cleared /\ authStorage.token = NULL

\* C24: the route guard renders a protected path exactly when isAuthenticated is
\* true and /login otherwise, so no protected route is rendered while the flag is
\* false; rendering changes no state besides the route and sends no request.
C24_RouteGuard ==
    /\ [](location \in ProtectedRoutes => isAuthenticated)
    /\ [][\A path \in Routes :
            Navigate(path) =>
              /\ location' = IF path \in ProtectedRoutes
                              THEN (IF isAuthenticated THEN path ELSE "/login")
                              ELSE path
              /\ UNCHANGED <<user, token, isAuthenticated, authToken, authStorage,
                             href, requests>>]_vars

\* the guard admits /profile on the flag alone, after a teardown removed 'authToken'
C24_Witness ==
    /\ session.ev = "teardown" /\ authToken = NULL /\ href = NoNav
    /\ isAuthenticated /\ location = "/profile"

\* C25 (as claimed): the step that handles a 401 sends no request, and the
\* teardown does not run again in a session it has already torn down.
C25_TeardownOnce ==
    [][\A params \in DOMAIN queryCache :
          (FetchRetry(params, Unauthorized) \/ FetchError(params, Unauthorized)) =>
              /\ fetches' = fetches
              /\ session.ev # "teardown"]_vars

\* the operations the state machine lets raise and lower isAuthenticated
C26_Only ==
    /\ (~isAuthenticated /\ isAuthenticated') =>
          \/ \E r \in requests, u \in Users, t \in Tokens : AuthSuccess(r, u, t)
          \/ \E path \in Routes : PageLoad(path) /\ Truthy(authStorage.token)
    /\ (isAuthenticated /\ ~isAuthenticated') =>
          \/ LogoutClick
          \/ \E r \in requests : DeleteSuccess(r)
          \/ \E r \in requests : Failure(r, Unauthorized) /\ ~isAuthEndpoint(r.url)

\* C26 (as claimed): the session follows the stated machine: isAuthenticated
\* rises only by a successful login or registration or a rehydration that loads a
\* token, falls only by logout, a successful account deletion or a 401 from a
\* non-auth endpoint, and each of these transitions is taken when its event
\* happens.
C26_SessionMachine ==
    [][/\ C26_Only
       /\ \A r \in requests :
            /\ (\E u \in Users, t \in Tokens : AuthSuccess(r, u, t)) => isAuthenticated'
            /\ DeleteSuccess(r) => ~isAuthenticated'
            /\ (Failure(r, Unauthorized) /\ ~isAuthEndpoint(r.url)) => ~isAuthenticated'
       /\ LogoutClick => ~isAuthenticated']_vars

\* C27 (as claimed): in every reachable state localStorage 'authToken' agrees with
\* the store's token, so every request sent from a protected view carries the
\* store's token.
C27_TokenAgreement ==
    /\ [](authToken = token)
    /\ [][\A r \in requests' \ requests :
            location \in ProtectedRoutes => r.auth = Bearer(token)]_vars

\* C28 (as claimed): a 401 answer to a request that was sent under an earlier
\* token leaves the session of a later login as it is: 'authToken' keeps the
\* later token and no redirect is set.
C28_StaleUnauthorized ==
    [][\A r \in requests :
          (/\ session.ev = "login"
           /\ r.auth # Bearer(session.tok)
           /\ Failure(r, Unauthorized))
             => authToken' = session.tok /\ href' = href]_vars

\* C29: for every 1 <= page <= totalPages the rendered list contains 1,
\* totalPages and page; its numbers are strictly increasing and within
\* 1..totalPages; it has at most 7 entries; every ellipsis stands between two
\* numbers that are not consecutive.
C29_WindowShape ==
    pageNumbers # <<>> =>
        LET n == Len(pageNumbers)
            nums == {i \in 1..n : pageNumbers[i] # Ellipsis}
        IN /\ \A q \in {1, pagination.totalPages, pagination.page} :
                \E i \in nums : pageNumbers[i] = Num(q)
           /\ \A i \in nums : pageNumbers[i].page \in 1..pagination.totalPages
           /\ \A i, j \in nums : i < j => pageNumbers[i].page < pageNumbers[j].page
           /\ n <= 7
           /\ \A i \in (1..n) \ nums :
                /\ i - 1 \in nums /\ i + 1 \in nums
                /\ pageNumbers[i + 1].page > pageNumbers[i - 1].page + 1

\* page 5 of 8 is rendered: seven entries, an ellipsis on each side of the window
C29_Witness ==
    /\ pagination.page = 5 /\ pagination.totalPages = 8
    /\ Len(pageNumbers) = 7 /\ pageNumbers[2] = Ellipsis /\ pageNumbers[6] = Ellipsis

\* the list shows the response to its current query and no fetch of it is running
C30_Settled ==
    /\ current.data # NoData
    /\ current.data.params = Params(page, ageFilter)
    /\ result.data = current.data
    /\ ~result.isFetching

\* C30: if from some point on the page and the filter no longer change, and
\* every request is answered successfully, then from some point on the items and
\* pagination shown are those of the response to the current query and the
\* '(Loading...)' indicator is off.
C30_EventuallyCurrent ==
    (<>[][page' = page /\ ageFilter' = ageFilter]_vars) => <>[]C30_Settled

\* page 2 of the filtered list is shown from its own response, nothing in flight
C30_Witness ==
    /\ C30_Settled /\ page = 2 /\ ageFilter = {18}
    /\ \A params \in DOMAIN queryCache : queryCache[params].fetchStatus = "idle"

====
